---- MODULE Spec2Model ----
(***************************************************************************)
(* A model of src/Coach_app.py: the mood classifier (detect_mood), the     *)
(* file-backed recent-mood memory (load_memory, save_memory,               *)
(* remember_mood, recent_mood_bias) and the chat command interpreter       *)
(* (handle_message).                                                       *)
(*                                                                         *)
(* Representation                                                          *)
(*  - A text is a sequence of one-character strings, so that strip, lower, *)
(*    startswith, split and the substring test `kw in text_l` are computed *)
(*    as Python computes them.                                             *)
(*  - The sentiment analyzer is an external library: an inbound message    *)
(*    carries, beside its text, the compound score the analyzer returns    *)
(*    for it, in units of 1/10000 (VADER rounds compound to 4 decimals).   *)
(*  - A score is a float.  It is represented in thousandths, and a value   *)
(*    that is one rounding step above or below the double nearest to the   *)
(*    decimal is represented one unit above or below it: 0.8 - 0.2 is      *)
(*    0.6000000000000001 (601), 0.6 - 0.2 is 0.39999999999999997 (399).    *)
(*    Order and equality of every score the classifier can produce are     *)
(*    those of the doubles.                                                *)
(*  - The clock (datetime.utcnow) is in minutes and does not run backward. *)
(*    A handler runs without suspension up to its first await, so every    *)
(*    utcnow() of one handler run reads the same minute.                   *)
(*  - random.shuffle in suggest_for_mood and pick_quote only permutes the  *)
(*    tips and picks the quote: a reply records that it carries the tips   *)
(*    of a mood and a quote, not which permutation.                        *)
(***************************************************************************)
EXTENDS Integers, Sequences, FiniteSets, TLC

\* ------------------------------------------------------------ constants

\* deque(..., maxlen=10)
Capacity == 10
\* timedelta(minutes=60)
PenaltyWindow == 60
\* 0.6, 0.5, 0.2 and -0.2 in thousandths
KeywordWeight == 600
StrongWeight == 500
SlightWeight == 200
Penalty == -200
\* comp >= 0.5, comp >= 0.05 (and their negatives) in units of 1/10000
StrongComp == 5000
SlightComp == 500

ALL_MOODS == <<"stressed", "tired", "sad", "happy", "neutral">>

Moods == {ALL_MOODS[i] : i \in 1..Len(ALL_MOODS)}

\* The spelling of a mood name, as the characters of the Python string.
Spell(m) ==
  CASE m = "stressed" -> <<"s","t","r","e","s","s","e","d">>
    [] m = "tired" -> <<"t","i","r","e","d">>
    [] m = "sad" -> <<"s","a","d">>
    [] m = "happy" -> <<"h","a","p","p","y">>
    [] m = "neutral" -> <<"n","e","u","t","r","a","l">>

MOOD_KEYWORDS == <<
  [mood |-> "stressed", kws |-> <<
      <<"o","v","e","r","w","h","e","l","m","e","d">>,
      <<"a","n","x","i","o","u","s">>,
      <<"s","t","r","e","s","s">>,
      <<"p","r","e","s","s","u","r","e">>,
      <<"p","a","n","i","c">> >>],
  [mood |-> "tired", kws |-> <<
      <<"s","l","e","e","p","y">>,
      <<"e","x","h","a","u","s","t","e","d">>,
      <<"f","a","t","i","g","u","e">>,
      <<"d","r","a","i","n","e","d">>,
      <<"t","i","r","e","d">> >>],
  [mood |-> "sad", kws |-> <<
      <<"d","o","w","n">>,
      <<"b","l","u","e">>,
      <<"d","e","p","r","e","s","s","e","d">>,
      <<"l","o","n","e","l","y">>,
      <<"s","a","d">> >>],
  [mood |-> "happy", kws |-> <<
      <<"g","r","e","a","t">>,
      <<"e","x","c","i","t","e","d">>,
      <<"j","o","y">>,
      <<"g","r","a","t","e","f","u","l">>,
      <<"h","a","p","p","y">> >>] >>

\* ------------------------------------------------------------- strings

UPPERCASE == <<"A","B","C","D","E","F","G","H","I","J","K","L","M","N","O","P","Q","R","S","T","U","V","W","X","Y","Z">>
LOWERCASE == <<"a","b","c","d","e","f","g","h","i","j","k","l","m","n","o","p","q","r","s","t","u","v","w","x","y","z">>

LowerChar(c) ==
  IF \E i \in 1..Len(UPPERCASE) : UPPERCASE[i] = c
  THEN LOWERCASE[CHOOSE i \in 1..Len(UPPERCASE) : UPPERCASE[i] = c]
  ELSE c

UpperChar(c) ==
  IF \E i \in 1..Len(LOWERCASE) : LOWERCASE[i] = c
  THEN UPPERCASE[CHOOSE i \in 1..Len(LOWERCASE) : LOWERCASE[i] = c]
  ELSE c

\* str.lower()
lower(t) == [i \in 1..Len(t) |-> LowerChar(t[i])]

\* str.upper()
upper(t) == [i \in 1..Len(t) |-> UpperChar(t[i])]

IsSpace(c) == c = " "

\* str.strip()
strip(t) ==
  LET inner == {i \in 1..Len(t) : ~IsSpace(t[i])}
  IN IF inner = {} THEN <<>>
     ELSE LET lo == CHOOSE i \in inner : \A j \in inner : i <= j
              hi == CHOOSE i \in inner : \A j \in inner : j <= i
          IN SubSeq(t, lo, hi)

\* str.startswith(p)
startswith(t, p) == Len(t) >= Len(p) /\ SubSeq(t, 1, Len(p)) = p

\* `p in t` for strings
contains(t, p) ==
  \E i \in 1..(Len(t) - Len(p) + 1) : SubSeq(t, i, i + Len(p) - 1) = p

\* t.split(":", 1)[1], for a t that holds a colon
AfterFirstColon(t) ==
  LET at == CHOOSE i \in 1..Len(t) : t[i] = ":" /\ \A j \in 1..(i - 1) : t[j] # ":"
  IN SubSeq(t, at + 1, Len(t))

SAVE == <<"s","a","v","e">>
RESET == <<"r","e","s","e","t">>
CORRECT == <<"c","o","r","r","e","c","t",":">>
WHY == <<"w","h","y">>

\* mood = text.split(":", 1)[1].strip().lower()
CorrectArg(text) == lower(strip(AfterFirstColon(text)))

\* mood in ALL_MOODS
InAllMoods(arg) == \E i \in 1..Len(ALL_MOODS) : Spell(ALL_MOODS[i]) = arg

\* The branch handle_message takes on a stripped text: its if-chain, in order.
Dispatch(text) ==
  IF lower(text) = SAVE THEN "save"
  ELSE IF lower(text) = RESET THEN "reset"
  ELSE IF startswith(lower(text), CORRECT)
       THEN IF InAllMoods(CorrectArg(text)) THEN "correct" ELSE "unknown"
  ELSE IF lower(text) = WHY THEN "why"
  ELSE "text"

\* -------------------------------------------------------------- memory

\* The memory file: missing, unreadable as JSON, or holding recent_moods.
MissingFile == [status |-> "missing", recent_moods |-> <<>>]
CorruptFile == [status |-> "corrupt", recent_moods |-> <<>>]

load_memory(f) ==
  IF f.status = "ok" THEN [recent_moods |-> f.recent_moods]
  ELSE [recent_moods |-> <<>>]

save_memory(mem) == [status |-> "ok", recent_moods |-> mem.recent_moods]

\* deque(items, maxlen=Capacity): the last Capacity items
Deque(items) ==
  IF Len(items) <= Capacity THEN items
  ELSE SubSeq(items, Len(items) - Capacity + 1, Len(items))

\* mutant: a list, which append only grows
DequeAppendUnbounded(d, x) == Append(d, x)

\* mutant: the newest item leaves a full deque
DequeAppendKeepOldest(d, x) ==
  IF Len(d) < Capacity THEN Append(d, x)
  ELSE Append(SubSeq(d, 1, Len(d) - 1), x)

\* deque.append: the oldest item leaves a full deque
DequeAppend(d, x) ==
  IF Len(d) < Capacity THEN Append(d, x) ELSE Append(Tail(d), x)

\* mutant: the new record is saved without the loaded ones
remember_mood_no_load(f, mood, utcnow) ==
  save_memory([recent_moods |-> <<[mood |-> mood, ts |-> utcnow]>>])

remember_mood(f, mood, utcnow) ==
  LET mem == load_memory(f)
      moods == DequeAppend(Deque(mem.recent_moods), [mood |-> mood, ts |-> utcnow])
  IN save_memory([recent_moods |-> moods])

\* mutant: a record of exactly 60 minutes ago still counts
recent_mood_bias_inclusive(f, mood, utcnow) ==
  LET mem == load_memory(f)
      last_same == SelectSeq(mem.recent_moods, LAMBDA m : m.mood = mood)
  IN IF last_same = <<>> THEN 0
     ELSE IF utcnow - last_same[Len(last_same)].ts <= PenaltyWindow THEN Penalty
     ELSE 0

\* mutant: the first record of the mood is consulted (last_same[0])
recent_mood_bias_first(f, mood, utcnow) ==
  LET mem == load_memory(f)
      last_same == SelectSeq(mem.recent_moods, LAMBDA m : m.mood = mood)
  IN IF last_same = <<>> THEN 0
     ELSE IF utcnow - last_same[1].ts < PenaltyWindow THEN Penalty
     ELSE 0

recent_mood_bias(f, mood, utcnow) ==
  LET mem == load_memory(f)
      last_same == SelectSeq(mem.recent_moods, LAMBDA m : m.mood = mood)
  IN IF last_same = <<>> THEN 0
     ELSE IF utcnow - last_same[Len(last_same)].ts < PenaltyWindow THEN Penalty
     ELSE 0

\* ---------------------------------------------------------- classifier

\* a + b in IEEE-754 double arithmetic, on the representation of scores
F64Add(a, b) ==
  CASE a = 800 /\ b = -200 -> 601
    [] a = 600 /\ b = -200 -> 399
    [] a = 1100 /\ b = -200 -> 901
    [] OTHER -> a + b

\* hits = [kw for kw in kws if kw in text_l]
Hits(kws, text_l) == SelectSeq(kws, LAMBDA kw : contains(text_l, kw))

\* mutant: a keyword hits only a text equal to it (kw == text_l)
KeywordScoresWholeText(text_l) ==
  [m \in Moods |->
     IF \E i \in 1..Len(MOOD_KEYWORDS) :
          MOOD_KEYWORDS[i].mood = m
            /\ SelectSeq(MOOD_KEYWORDS[i].kws, LAMBDA kw : kw = text_l) # <<>>
     THEN F64Add(0, KeywordWeight) ELSE 0]

\* the keyword loop of detect_mood: +0.6 once for a mood with a hit
KeywordScores(text_l) ==
  [m \in Moods |->
     IF \E i \in 1..Len(MOOD_KEYWORDS) :
          MOOD_KEYWORDS[i].mood = m /\ Hits(MOOD_KEYWORDS[i].kws, text_l) # <<>>
     THEN F64Add(0, KeywordWeight) ELSE 0]

\* mutant: the slight rules look at the sign of comp alone
SentimentRuleSigned(comp) ==
  IF comp >= StrongComp THEN [mood |-> "happy", w |-> StrongWeight]
  ELSE IF comp > 0 THEN [mood |-> "happy", w |-> SlightWeight]
  ELSE IF comp <= -StrongComp THEN [mood |-> "sad", w |-> StrongWeight]
  ELSE IF comp < 0 THEN [mood |-> "stressed", w |-> SlightWeight]
  ELSE [mood |-> "neutral", w |-> SlightWeight]

\* the if/elif chain on comp: the mood that gets the weight, and the weight
SentimentRule(comp) ==
  IF comp >= StrongComp THEN [mood |-> "happy", w |-> StrongWeight]
  ELSE IF comp >= SlightComp THEN [mood |-> "happy", w |-> SlightWeight]
  ELSE IF comp <= -StrongComp THEN [mood |-> "sad", w |-> StrongWeight]
  ELSE IF comp <= -SlightComp THEN [mood |-> "stressed", w |-> SlightWeight]
  ELSE [mood |-> "neutral", w |-> SlightWeight]

RECURSIVE ArgMaxFrom(_, _, _)
\* max(scores, key=scores.get) walks the dict in insertion order (ALL_MOODS) and
\* keeps a key until a later one has a strictly greater score.
ArgMaxFrom(scores, i, best) ==
  IF i > Len(ALL_MOODS) THEN best
  ELSE ArgMaxFrom(scores, i + 1,
                  IF scores[ALL_MOODS[i]] > scores[best] THEN ALL_MOODS[i] ELSE best)

\* mutant: among equal scores the last key wins (>= for >)
ArgMaxLast(scores) ==
  LET top == {m \in Moods : \A o \in Moods : scores[o] <= scores[m]}
  IN ALL_MOODS[CHOOSE i \in 1..Len(ALL_MOODS) :
       ALL_MOODS[i] \in top /\ \A j \in (i + 1)..Len(ALL_MOODS) : ALL_MOODS[j] \notin top]

ArgMax(scores) == ArgMaxFrom(scores, 2, ALL_MOODS[1])

\* detect_mood on an incoming message m (its keyword scores m.kw are those of
\* its lower-cased text, its compound score m.comp the analyzer's)
detect_mood(f, m, utcnow) ==
  LET rule == SentimentRule(m.comp)
      base == [k \in Moods |-> IF k = rule.mood THEN F64Add(m.kw[k], rule.w) ELSE m.kw[k]]
      adj == [k \in Moods |-> recent_mood_bias(f, k, utcnow)]
      scores == [k \in Moods |-> F64Add(base[k], adj[k])]
  IN [mood |-> ArgMax(scores), comp |-> m.comp, scores |-> scores, base |-> base,
      adj |-> adj]

\* ------------------------------------------------------- state machine

VARIABLES
  file,      \* coach_memory.json
  now,       \* the clock, in minutes
  frame,     \* per chat session: the handle_message coroutine, if one is alive
  sent,      \* per chat session: the messages its current or last handler sent
  hist,      \* history: the records the first file held, then every record
             \* remember_mood appended, in order
  appends,   \* history: the remember_mood calls so far
  resetSeen  \* history: whether a `reset` was handled

vars == <<file, now, frame, sent, hist, appends, resetSeen>>

NoScores == [m \in Moods |-> 0]

NoContent == [kind |-> "none", mood |-> "", arg |-> <<>>, listed |-> <<>>, tips |-> "", quote |-> FALSE]

\* No coroutine: the session waits for a message.
IdleFrame ==
  [pc |-> "idle", text |-> <<>>, comp |-> 0, kw |-> NoScores, mood |-> "",
   scores |-> NoScores, base |-> NoScores, adj |-> NoScores, seen |-> MissingFile,
   at |-> 0, content |-> NoContent]

\* cl.Message(content=...) of each branch of handle_message
Saved == [NoContent EXCEPT !.kind = "saved"]
Cleared == [NoContent EXCEPT !.kind = "cleared"]
WhyHint == [NoContent EXCEPT !.kind = "why_hint"]
UnknownMood(arg) == [NoContent EXCEPT !.kind = "unknown_mood", !.arg = arg, !.listed = ALL_MOODS]
\* suggest_for_mood(mood) returns the whole pool of the mood (n = 3 = its size),
\* shuffled; pick_quote() returns some quote.
Updated(mood) == [NoContent EXCEPT !.kind = "updated", !.mood = mood, !.tips = mood, !.quote = TRUE]
Detected(mood) == [NoContent EXCEPT !.kind = "detected", !.mood = mood, !.tips = mood, !.quote = TRUE]
Explanation(mood) == [NoContent EXCEPT !.kind = "explanation", !.mood = mood]

\* An incoming message: the stripped text (line 169), the analyzer's compound
\* score for it, and what the handler computes from the text alone: the branch
\* it takes, the argument of `correct:` and the keyword scores of detect_mood.
Incoming(msg) ==
  LET text == strip(msg.text)
      branch == Dispatch(text)
  IN [text |-> text, comp |-> msg.comp, branch |-> branch,
      arg |-> IF branch \in {"correct", "unknown"} THEN CorrectArg(text) ELSE <<>>,
      kw |-> KeywordScores(lower(text))]

\* The locals of the handler of message m when it reaches its first await.
Locals(m, content) ==
  [IdleFrame EXCEPT !.pc = "send", !.text = m.text, !.seen = file, !.at = now,
                    !.content = content]

\* The coroutine of session s ran up to an await of Message.send().
Await(s, f) ==
  /\ frame' = [frame EXCEPT ![s] = f]
  /\ sent' = [sent EXCEPT ![s] = <<>>]

\* lines 171-174
HandleSave(s, m) ==
  /\ frame[s].pc = "idle"
  /\ m.branch = "save"
  /\ file' = save_memory(load_memory(file))
  /\ Await(s, Locals(m, Saved))
  /\ UNCHANGED <<now, hist, appends, resetSeen>>

\* mutant: `reset` answers and leaves the file alone
HandleResetNoSave(s, m) ==
  /\ frame[s].pc = "idle"
  /\ m.branch = "reset"
  /\ Await(s, Locals(m, Cleared))
  /\ resetSeen' = TRUE
  /\ UNCHANGED <<file, now, hist, appends>>

\* lines 176-179
HandleReset(s, m) ==
  /\ frame[s].pc = "idle"
  /\ m.branch = "reset"
  /\ file' = save_memory([recent_moods |-> <<>>])
  /\ Await(s, Locals(m, Cleared))
  /\ resetSeen' = TRUE
  /\ UNCHANGED <<now, hist, appends>>

\* mutant: an unknown mood is recorded as neutral before it is rejected
HandleCorrectUnknownRecords(s, m) ==
  /\ frame[s].pc = "idle"
  /\ m.branch = "unknown"
  /\ file' = remember_mood(file, "neutral", now)
  /\ hist' = Append(hist, [mood |-> "neutral", ts |-> now])
  /\ Await(s, Locals(m, UnknownMood(m.arg)))
  /\ UNCHANGED <<now, appends, resetSeen>>

\* lines 181-185
HandleCorrectUnknown(s, m) ==
  /\ frame[s].pc = "idle"
  /\ m.branch = "unknown"
  /\ Await(s, Locals(m, UnknownMood(m.arg)))
  /\ UNCHANGED <<file, now, hist, appends, resetSeen>>

\* lines 181-195
HandleCorrect(s, m) ==
  /\ frame[s].pc = "idle"
  /\ m.branch = "correct"
  /\ LET mood == CHOOSE k \in Moods : Spell(k) = m.arg IN
     /\ file' = remember_mood(file, mood, now)
     /\ hist' = Append(hist, [mood |-> mood, ts |-> now])
     /\ Await(s, [Locals(m, Updated(mood)) EXCEPT !.mood = mood])
  /\ appends' = appends + 1
  /\ UNCHANGED <<now, resetSeen>>

\* lines 197-199
HandleWhy(s, m) ==
  /\ frame[s].pc = "idle"
  /\ m.branch = "why"
  /\ Await(s, Locals(m, WhyHint))
  /\ UNCHANGED <<file, now, hist, appends, resetSeen>>

\* lines 201-213
HandleText(s, m) ==
  /\ frame[s].pc = "idle"
  /\ m.branch = "text"
  /\ LET d == detect_mood(file, m, now) IN
     /\ file' = remember_mood(file, d.mood, now)
     /\ hist' = Append(hist, [mood |-> d.mood, ts |-> now])
     /\ Await(s, [Locals(m, Detected(d.mood)) EXCEPT
                    !.comp = d.comp, !.kw = m.kw, !.mood = d.mood, !.scores = d.scores,
                    !.base = d.base, !.adj = d.adj])
  /\ appends' = appends + 1
  /\ UNCHANGED <<now, resetSeen>>

\* @cl.on_message
handle_message(s, m) ==
  \/ HandleSave(s, m)
  \/ HandleReset(s, m)
  \/ HandleCorrectUnknown(s, m)
  \/ HandleCorrect(s, m)
  \/ HandleWhy(s, m)
  \/ HandleText(s, m)

\* The awaited send of a command's reply completes and the handler returns.
SendReply(s) ==
  /\ frame[s].pc = "send"
  /\ frame[s].content.kind # "detected"
  /\ sent' = [sent EXCEPT ![s] = Append(sent[s], frame[s].content)]
  /\ frame' = [frame EXCEPT ![s] = IdleFrame]
  /\ UNCHANGED <<file, now, hist, appends, resetSeen>>

\* lines 213-222: the awaited send of the mood reply completes; the handler
\* goes on to the explanation if the text holds "why", and returns if not.
SendDetected(s) ==
  /\ frame[s].pc = "send"
  /\ frame[s].content.kind = "detected"
  /\ sent' = [sent EXCEPT ![s] = Append(sent[s], frame[s].content)]
  /\ frame' = [frame EXCEPT ![s] =
                 IF contains(lower(frame[s].text), WHY)
                 THEN [frame[s] EXCEPT !.pc = "send_expl",
                                       !.content = Explanation(frame[s].mood)]
                 ELSE IdleFrame]
  /\ UNCHANGED <<file, now, hist, appends, resetSeen>>

\* line 222: the awaited send of the explanation completes.
SendExplanation(s) ==
  /\ frame[s].pc = "send_expl"
  /\ sent' = [sent EXCEPT ![s] = Append(sent[s], frame[s].content)]
  /\ frame' = [frame EXCEPT ![s] = IdleFrame]
  /\ UNCHANGED <<file, now, hist, appends, resetSeen>>

\* A bare call of detect_mood (lines 98-133) on message m: it reads the memory
\* and the clock and changes nothing.
Classify(s, m) ==
  /\ frame[s].pc = "idle"
  /\ m.branch = "text"
  /\ LET d == detect_mood(file, m, now) IN
     frame' = [frame EXCEPT ![s] =
                 [Locals(m, NoContent) EXCEPT
                    !.pc = "classified", !.comp = d.comp, !.kw = m.kw, !.mood = d.mood,
                    !.scores = d.scores, !.base = d.base, !.adj = d.adj]]
  /\ UNCHANGED <<file, now, sent, hist, appends, resetSeen>>

\* The caller drops the result.
Return(s) ==
  /\ frame[s].pc = "classified"
  /\ frame' = [frame EXCEPT ![s] = IdleFrame]
  /\ UNCHANGED <<file, now, sent, hist, appends, resetSeen>>

\* Time passes.
Tick(d) ==
  /\ now' = now + d
  /\ UNCHANGED <<file, frame, sent, hist, appends, resetSeen>>

\* The state when the process starts at minute t with memory file f and chat
\* sessions S.
InitWith(S, f, t) ==
  /\ file = f
  /\ now = t
  /\ frame = [s \in S |-> IdleFrame]
  /\ sent = [s \in S |-> <<>>]
  /\ hist = load_memory(f).recent_moods
  /\ appends = 0
  /\ resetSeen = FALSE

\* --------------------------------------------------------------- inputs

Msg(text, comp) == [text |-> text, comp |-> comp]

\* str.capitalize() of a lower-case text
capitalize(t) == [i \in 1..Len(t) |-> IF i = 1 THEN UpperChar(t[i]) ELSE t[i]]

Padded(t) == <<" ">> \o t \o <<" ">>

\* a command in three letter cases, one of them padded with spaces
Variants(t) == {t, Padded(upper(t)), capitalize(t)}

EXCITED == <<"e","x","c","i","t","e","d">>
OK == <<"o","k">>
SO == <<"s","o"," ">>

\* compound scores at and next to the thresholds of detect_mood
Comps == {-StrongComp, -SlightComp, 1 - SlightComp, SlightComp - 1, SlightComp, StrongComp}

SaveMsgs == {Msg(t, 0) : t \in Variants(SAVE)}
ResetMsgs == {Msg(t, 0) : t \in Variants(RESET)}
WhyMsgs == {Msg(t, 0) : t \in Variants(WHY)}
\* `correct: <mood>` for every mood, and two more spellings of one of them
ValidCorrectMsgs ==
  {Msg(CORRECT \o <<" ">> \o Spell(k), 0) : k \in Moods}
    \cup {Msg(upper(CORRECT \o Spell("sad")), 0), Msg(Padded(CORRECT \o capitalize(Spell("happy"))), 0)}
\* `correct:` with a word that is no mood, and with nothing
UnknownCorrectMsgs ==
  {Msg(CORRECT \o <<" ">> \o EXCITED, 0), Msg(upper(CORRECT \o EXCITED), 0), Msg(CORRECT, 0)}

\* free texts: no keyword; a stressed keyword; "why" and a sad keyword
PANIC == MOOD_KEYWORDS[1].kws[5]
SAD == MOOD_KEYWORDS[3].kws[5]
PlainMsgs ==
  {Msg(OK, 0), Msg(SO \o PANIC, 0), Msg(WHY \o <<" ">> \o SO \o SAD, -StrongComp)}

\* ------------------------------------------------------- specifications

\* bounds of the models
MaxMsgs == 2
MaxTime == 60
MaxFifoAppends == 11
MaxAsyncAppends == 11

EmptyFile == save_memory([recent_moods |-> <<>>])

\* The file that successive remember_mood calls leave, one per record of recs.
RECURSIVE Chain(_)
Chain(recs) ==
  IF recs = <<>> THEN MissingFile
  ELSE LET n == Len(recs)
       IN remember_mood(Chain(SubSeq(recs, 1, n - 1)), recs[n].mood, recs[n].ts)

At(moods, t) == [i \in 1..Len(moods) |-> [mood |-> moods[i], ts |-> t]]

\* Ten records, as ten `correct: tired` at minute 0 leave them.
FullFile == Chain(At([i \in 1..Capacity |-> "tired"], 0))

\* --- Spec: the command interpreter, one chat session

Inbox == {Incoming(msg) : msg \in SaveMsgs \cup ResetMsgs \cup WhyMsgs \cup ValidCorrectMsgs
                                    \cup UnknownCorrectMsgs \cup PlainMsgs}

Init == \E f \in {MissingFile, EmptyFile, FullFile} : InitWith({1}, f, 0)

Next ==
  \/ \E m \in Inbox : HandleSave(1, m)
  \/ \E m \in Inbox : HandleReset(1, m)
  \/ \E m \in Inbox : HandleCorrectUnknown(1, m)
  \/ \E m \in Inbox : HandleCorrect(1, m) /\ appends' <= MaxMsgs
  \/ \E m \in Inbox : HandleWhy(1, m)
  \/ \E m \in Inbox : HandleText(1, m) /\ appends' <= MaxMsgs
  \/ SendReply(1)
  \/ SendDetected(1)
  \/ SendExplanation(1)
  \/ Tick(30) /\ now' <= MaxTime

Spec == Init /\ [][Next]_vars

\* --- SpecDetect: the classifier on the memories a few messages leave

\* one record per mood of a set, all of minute 0
SubsetSeeds ==
  {Chain(At(SelectSeq(ALL_MOODS, LAMBDA k : k \in S), 0)) : S \in SUBSET Moods}

SeedTimes == {0, 30}

\* two records, of any moods, of the same or of different minutes
PairSeeds ==
  {Chain(<<[mood |-> a, ts |-> t[1]], [mood |-> b, ts |-> t[2]]>>) :
     a \in Moods, b \in Moods, t \in {u \in SeedTimes \X SeedTimes : u[1] <= u[2]}}

Seeds == SubsetSeeds \cup PairSeeds

LastTs(f) ==
  IF f.recent_moods = <<>> THEN 0 ELSE f.recent_moods[Len(f.recent_moods)].ts

\* a text with the k-th keyword of every mood of S (by its place in MOOD_KEYWORDS)
RECURSIVE KeywordText(_, _, _)
KeywordText(S, k, i) ==
  IF i > Len(MOOD_KEYWORDS) THEN <<>>
  ELSE (IF i \in S THEN <<" ">> \o MOOD_KEYWORDS[i].kws[k] ELSE <<>>) \o KeywordText(S, k, i + 1)

FEEL == <<"i"," ","f","e","e","l">>

DetectTexts ==
  {FEEL \o KeywordText(S, 1, 1) : S \in SUBSET (1..Len(MOOD_KEYWORDS))}
    \cup {FEEL \o KeywordText({i}, k, 1) : i \in 1..Len(MOOD_KEYWORDS), k \in 1..5}
    \cup {upper(FEEL \o KeywordText({1, 2}, 3, 1)), <<"x">> \o PANIC \o <<"x">>}

DetectInbox == {Incoming(Msg(t, c)) : t \in DetectTexts, c \in Comps}

InitDetect == \E f \in Seeds : InitWith({1}, f, LastTs(f))

NextDetect ==
  \/ \E m \in DetectInbox : Classify(1, m)
  \/ Return(1)
  \/ \E d \in {29, 30} : Tick(d) /\ now' <= MaxTime

SpecDetect == InitDetect /\ [][NextDetect]_vars

\* --- SpecFifo: long runs of one session on a memory that starts empty (a
\* missing, an unreadable or an empty file), with no `reset`

TIRED == Spell("tired")
HAPPY == Spell("happy")
SLEEPY == MOOD_KEYWORDS[2].kws[1]

FifoInbox ==
  {Incoming(msg) : msg \in {Msg(CORRECT \o TIRED, 0), Msg(CORRECT \o <<" ">> \o HAPPY, 0),
                            Msg(CORRECT \o EXCITED, 0), Msg(SAVE, 0), Msg(WHY, 0),
                            Msg(WHY \o <<" ">> \o SO \o SLEEPY, 0)}}

InitFifo == \E f \in {MissingFile, CorruptFile, EmptyFile} : InitWith({1}, f, 0)

NextFifo ==
  \/ \E m \in FifoInbox : HandleSave(1, m)
  \/ \E m \in FifoInbox : HandleCorrectUnknown(1, m)
  \/ \E m \in FifoInbox : HandleCorrect(1, m) /\ appends' <= MaxFifoAppends
  \/ \E m \in FifoInbox : HandleWhy(1, m)
  \/ \E m \in FifoInbox : HandleText(1, m) /\ appends' <= MaxFifoAppends
  \/ SendReply(1)
  \/ SendDetected(1)
  \/ SendExplanation(1)

SpecFifo == InitFifo /\ [][NextFifo]_vars

\* --- SpecAsync: two chat sessions in one process; their handlers interleave
\* at the awaits

Sessions == {1, 2}

AsyncInbox ==
  {Incoming(msg) : msg \in {Msg(CORRECT \o TIRED, 0), Msg(CORRECT \o EXCITED, 0),
                            Msg(SAVE, 0), Msg(RESET, 0), Msg(WHY, 0),
                            Msg(WHY \o <<" ">> \o SO \o SLEEPY, 0)}}

InitAsync == \E f \in {MissingFile, EmptyFile} : InitWith(Sessions, f, 0)

NextAsync ==
  \/ \E s \in Sessions, m \in AsyncInbox : HandleSave(s, m)
  \/ \E s \in Sessions, m \in AsyncInbox : HandleReset(s, m)
  \/ \E s \in Sessions, m \in AsyncInbox : HandleCorrectUnknown(s, m)
  \/ \E s \in Sessions, m \in AsyncInbox : HandleCorrect(s, m) /\ appends' <= MaxAsyncAppends
  \/ \E s \in Sessions, m \in AsyncInbox : HandleWhy(s, m)
  \/ \E s \in Sessions, m \in AsyncInbox : HandleText(s, m) /\ appends' <= MaxAsyncAppends
  \/ \E s \in Sessions : SendReply(s)
  \/ \E s \in Sessions : SendDetected(s)
  \/ \E s \in Sessions : SendExplanation(s)

SpecAsync == InitAsync /\ [][NextAsync]_vars

\* --------------------------------------------------------------- claims

Min(a, b) == IF a <= b THEN a ELSE b

\* The frames that hold a result of detect_mood.
Results == {s \in DOMAIN frame : frame[s].pc = "classified"
                                  \/ frame[s].content.kind \in {"detected", "explanation"}}

\* The places of the records of mood k in the memory a frame's handler read.
PlacesOf(fr, k) == {i \in 1..Len(fr.seen.recent_moods) : fr.seen.recent_moods[i].mood = k}

\* The moods with a record younger than the window in that memory.
Recent(fr) ==
  {k \in Moods : \E i \in PlacesOf(fr, k) : fr.at - fr.seen.recent_moods[i].ts < PenaltyWindow}

\* The moods with a keyword in the text, whatever its letter case.
KeywordMoods(text) ==
  LET tl == lower(text) IN
  {MOOD_KEYWORDS[i].mood : i \in {n \in 1..Len(MOOD_KEYWORDS) :
     \E j \in 1..Len(MOOD_KEYWORDS[n].kws) : contains(tl, MOOD_KEYWORDS[n].kws[j])}}

\* C1: the persisted recent_moods list never holds more than 10 records,
\* whatever messages were handled, from a missing, an empty or a full file.
C1_AtMostTenRecords == Len(file.recent_moods) <= Capacity

\* C1 witness: a record was appended to a memory that already held 10.
C1_Witness ==
  /\ Len(file.recent_moods) = Capacity
  /\ Len(hist) > Capacity
  /\ appends > 0

\* C2: after k remember_mood calls on an initially empty memory the memory holds
\* exactly the last min(k, 10) appended records, in append order; the records
\* dropped are the first ones appended.
C2_FifoEviction ==
  LET k == appends
      kept == Min(k, Capacity)
  IN /\ Len(hist) = k
     /\ load_memory(file).recent_moods = SubSeq(hist, k - kept + 1, k)

\* C2 witness: 11 calls left 10 records, the second one appended now first and
\* the first one appended, of another mood, gone.
C2_Witness ==
  /\ appends = Capacity + 1
  /\ Len(file.recent_moods) = Capacity
  /\ hist[1].mood = "happy"
  /\ hist[2].mood = "tired"
  /\ file.recent_moods[1] = hist[2]
  /\ \A i \in 1..Capacity : file.recent_moods[i] = hist[i + 1]

\* C3 as claimed: for every record (X, T) remember_mood ever made and every later
\* detect_mood call at time now, score[X] carries the -0.2 adjustment when
\* now - T < 60 and carries none when now - T >= 60.
C3_Original ==
  \A s \in Results : \A i \in 1..Len(hist) :
    LET X == hist[i].mood
        T == hist[i].ts
        fr == frame[s]
    IN \* the record was made before this call of detect_mood
       (i <= Len(hist) - (IF fr.pc = "classified" THEN 0 ELSE 1)) =>
         /\ (fr.at - T < PenaltyWindow => fr.adj[X] = Penalty)
         /\ (fr.at - T >= PenaltyWindow => fr.adj[X] = 0)

\* C3 amended: for a record (X, T) that is in memory when detect_mood is called
\* and is the last record of X there, score[X] carries the -0.2 adjustment when
\* now - T < 60 and carries none when now - T >= 60.
C3_LastRecordInMemory ==
  \A s \in Results : \A X \in Moods :
    LET fr == frame[s] IN
    \A i \in PlacesOf(fr, X) :
      (\A j \in PlacesOf(fr, X) : j <= i) =>
        LET T == fr.seen.recent_moods[i].ts IN
        /\ (fr.at - T < PenaltyWindow =>
              fr.adj[X] = Penalty /\ fr.scores[X] = F64Add(fr.base[X], Penalty))
        /\ (fr.at - T >= PenaltyWindow =>
              fr.adj[X] = 0 /\ fr.scores[X] = fr.base[X])

\* C3 witness: a handled text whose own mood was recorded less than 60 minutes
\* before and is penalised, while a record of 60 minutes ago of another mood is not.
C3_Witness ==
  \E s \in Results : \E X \in Moods, Y \in Moods :
    LET fr == frame[s] IN
    /\ fr.content.kind = "detected"
    /\ X # Y
    /\ fr.adj[X] = Penalty
    /\ fr.adj[Y] = 0
    /\ \E i \in PlacesOf(fr, Y) : fr.at - fr.seen.recent_moods[i].ts = PenaltyWindow
    /\ \E i \in PlacesOf(fr, X) : fr.at - fr.seen.recent_moods[i].ts < PenaltyWindow

\* The premise of C4: a stressed keyword, no keyword of another mood, and a
\* compound score that triggers neither a positive nor a negative rule.
StressedOnly(fr) ==
  /\ KeywordMoods(fr.text) = {"stressed"}
  /\ -SlightComp < fr.comp
  /\ fr.comp < SlightComp

\* C4 as claimed: for such a text detect_mood returns score["stressed"] >= 0.6
\* and mood "stressed", whatever the memory holds.
C4_Original ==
  \A s \in Results :
    StressedOnly(frame[s]) =>
      frame[s].scores["stressed"] >= KeywordWeight /\ frame[s].mood = "stressed"

\* C4 amended: for such a text detect_mood returns mood "stressed" whatever the
\* memory holds; score["stressed"] is 0.6 when stressed has no record younger
\* than 60 minutes, and 0.6 - 0.2 (below 0.6) when it has one.
C4_StressedKeywordWins ==
  \A s \in Results :
    StressedOnly(frame[s]) =>
      /\ frame[s].mood = "stressed"
      /\ frame[s].scores["stressed"] =
           (IF "stressed" \in Recent(frame[s]) THEN F64Add(KeywordWeight, Penalty)
            ELSE KeywordWeight)
      /\ ("stressed" \in Recent(frame[s]) <=> frame[s].scores["stressed"] < KeywordWeight)

\* C4 witness: such a text classified stressed with the penalty on stressed and
\* none on neutral, its closest rival.
C4_Witness ==
  \E s \in Results :
    /\ StressedOnly(frame[s])
    /\ frame[s].mood = "stressed"
    /\ frame[s].adj["stressed"] = Penalty
    /\ frame[s].adj["neutral"] = 0
    /\ frame[s].scores["neutral"] = SlightWeight

\* the place of a mood in ALL_MOODS
Place(k) == CHOOSE i \in 1..Len(ALL_MOODS) : ALL_MOODS[i] = k

\* C5: the mood detect_mood returns is one of the five, its score is the
\* maximum, and no mood before it in ALL_MOODS has that score.
C5_ArgMaxFirstDeclared ==
  \A s \in Results :
    LET fr == frame[s] IN
    /\ fr.mood \in Moods
    /\ \A k \in Moods : fr.scores[k] <= fr.scores[fr.mood]
    /\ \A k \in Moods : fr.scores[k] = fr.scores[fr.mood] => Place(fr.mood) <= Place(k)

\* C5 witness: three moods share the maximum, a keyword hit each, one of them
\* after a positive sentiment weight and a penalty; the first declared is returned.
C5_Witness ==
  \E s \in Results :
    LET fr == frame[s] IN
    /\ fr.mood = "tired"
    /\ fr.scores["tired"] = KeywordWeight
    /\ fr.scores["sad"] = KeywordWeight
    /\ fr.scores["stressed"] < KeywordWeight
    /\ fr.base["stressed"] = KeywordWeight
    /\ fr.scores["neutral"] < fr.scores["tired"]

\* C5 witness of the float case: happy, at 0.6 + 0.2 - 0.2, beats stressed at 0.6.
C5_FloatWitness ==
  \E s \in Results :
    LET fr == frame[s] IN
    /\ fr.mood = "happy"
    /\ fr.base["happy"] = KeywordWeight + SlightWeight
    /\ fr.adj["happy"] = Penalty
    /\ fr.scores["stressed"] = KeywordWeight

\* C6: recent_mood_bias(mood) is -0.2 exactly when memory holds a record of the
\* mood and the last of them in list order is less than 60 minutes old, and 0.0
\* otherwise; earlier records of the mood and records of other moods do not count.
C6_BiasOfLastRecord ==
  \A s \in Results : \A k \in Moods :
    LET fr == frame[s]
        places == PlacesOf(fr, k)
    IN fr.adj[k] =
         (IF places # {}
             /\ LET last == CHOOSE i \in places : \A j \in places : j <= i
                IN fr.at - fr.seen.recent_moods[last].ts < PenaltyWindow
          THEN Penalty ELSE 0)

\* C6 witness: two records of one mood, the first 60 minutes old and the last
\* younger, give the penalty; a record of another mood of 60 minutes ago gives none.
C6_Witness ==
  \E s \in Results : \E k \in Moods :
    LET fr == frame[s]
        recs == fr.seen.recent_moods
    IN /\ Len(recs) = 2
       /\ recs[1].mood = k
       /\ recs[2].mood = k
       /\ fr.at - recs[1].ts >= PenaltyWindow
       /\ fr.at - recs[2].ts < PenaltyWindow
       /\ fr.adj[k] = Penalty
       /\ \A o \in Moods \ {k} : fr.adj[o] = 0

\* The text is `correct:` (in any letter case) with something that is no mood.
IsUnknownCorrect(text) ==
  /\ startswith(lower(text), CORRECT)
  /\ \A k \in Moods : lower(strip(AfterFirstColon(text))) # Spell(k)

\* C7: handling `correct: <no mood>` leaves the memory file as it was, appends
\* no record and sends one message only, the rejection that lists the five
\* moods, with no suggestion and no quote.
C7_UnknownMoodRejected ==
  \A s \in DOMAIN frame :
    /\ (frame[s].pc # "idle" /\ IsUnknownCorrect(frame[s].text)) =>
         /\ file = frame[s].seen
         /\ frame[s].pc = "send"
         /\ frame[s].content = UnknownMood(lower(strip(AfterFirstColon(frame[s].text))))
         /\ frame[s].content.listed = ALL_MOODS
         /\ frame[s].content.tips = ""
         /\ ~frame[s].content.quote
         /\ sent[s] = <<>>
    /\ (\E i \in 1..Len(sent[s]) : sent[s][i].kind = "unknown_mood") =>
         /\ Len(sent[s]) = 1
         /\ sent[s][1].listed = ALL_MOODS
         /\ sent[s][1].tips = "" /\ ~sent[s][1].quote

\* C7 witness: `CORRECT:EXCITED` was handled on a memory of 10 records and its
\* handler waits to send the rejection.
C7_Witness ==
  \E s \in DOMAIN frame :
    /\ frame[s].text = upper(CORRECT \o EXCITED)
    /\ frame[s].content.kind = "unknown_mood"
    /\ Len(file.recent_moods) = Capacity
    /\ appends > 0

\* C7 witness: the handler returned having sent the rejection alone.
C7_SentWitness ==
  \E s \in DOMAIN frame :
    /\ frame[s].pc = "idle"
    /\ sent[s] = <<UnknownMood(EXCITED)>>
    /\ file.recent_moods # <<>>

\* C8: handling `reset` (in any letter case) leaves the file with an empty
\* recent_moods list, and a detect_mood call made before any other message is
\* handled, on any text and however much later, puts no penalty on any mood.
C8_ResetClears ==
  \A s \in DOMAIN frame :
    ((frame[s].pc # "idle" /\ lower(frame[s].text) = RESET)
       \/ (frame[s].pc = "idle" /\ sent[s] = <<Cleared>>)) =>
      /\ file = EmptyFile
      /\ \A m \in Inbox : \A k \in Moods :
           m.branch = "text" => detect_mood(file, m, now).adj[k] = 0

\* C8 witness: ` RESET ` was handled on a memory whose last record, tired, was
\* young enough for the penalty.
C8_Witness ==
  \E s \in DOMAIN frame :
    /\ frame[s].pc = "send"
    /\ frame[s].text = upper(RESET)
    /\ frame[s].seen.recent_moods # <<>>
    /\ recent_mood_bias(frame[s].seen, "tired", now) = Penalty
    /\ file.recent_moods = <<>>

\* The first mood of stressed, tired, sad, happy that is not in R.
RECURSIVE FirstNotIn(_, _)
FirstNotIn(R, i) ==
  IF ALL_MOODS[i] \notin R THEN ALL_MOODS[i] ELSE FirstNotIn(R, i + 1)

\* The premise of C9: no keyword of any mood and a neutral compound score.
Bland(fr) ==
  /\ KeywordMoods(fr.text) = {}
  /\ -SlightComp < fr.comp
  /\ fr.comp < SlightComp

\* C9: a text with no keyword and neutral sentiment is classified neutral if
\* and only if neutral has no record younger than 60 minutes or each of the
\* other four moods has one; otherwise it is classified as the first of
\* stressed, tired, sad, happy that has none.
C9_BlandText ==
  \A s \in Results :
    LET fr == frame[s]
        R == Recent(fr)
    IN Bland(fr) =>
         /\ (fr.mood = "neutral" <=> ("neutral" \notin R \/ Moods \ {"neutral"} \subseteq R))
         /\ (fr.mood # "neutral" => fr.mood = FirstNotIn(R, 1))

\* C9 witness: the memory is what a first such text leaves in an empty memory
\* (one neutral record), and the same text, less than 60 minutes later, is
\* classified stressed.
C9_Witness ==
  \E s \in Results :
    LET fr == frame[s] IN
    /\ Bland(fr)
    /\ detect_mood(EmptyFile, [kw |-> fr.kw, comp |-> fr.comp], 0).mood = "neutral"
    /\ fr.seen = remember_mood(EmptyFile, "neutral", 0)
    /\ fr.at > 0
    /\ fr.at < PenaltyWindow
    /\ fr.mood = "stressed"

\* C10: a handler that is suspended at an await has finished its memory access
\* (the record it made is in the history, and a path that made none wrote no
\* record), and with the handlers of two sessions interleaved at their awaits no
\* update is lost: from an empty memory and with no `reset`, N handled mood or
\* valid `correct:` messages leave exactly min(N, 10) records.
C10_NoLostUpdate ==
  /\ \A s \in DOMAIN frame :
       frame[s].content.kind \in {"updated", "detected", "explanation"} =>
         \E i \in 1..Len(hist) : hist[i] = [mood |-> frame[s].mood, ts |-> frame[s].at]
  /\ Len(hist) = appends
  /\ ~resetSeen => Len(load_memory(file).recent_moods) = Min(appends, Capacity)

\* C10 witness: both sessions are suspended at an await, one of them between
\* its two sends, after 11 appends and no reset, and the memory holds 10 records.
C10_Witness ==
  /\ ~resetSeen
  /\ appends = Capacity + 1
  /\ Len(file.recent_moods) = Capacity
  /\ frame[1].pc = "send_expl"
  /\ frame[2].pc = "send"
  /\ frame[2].content.kind = "updated"

====
